---------------------------- MODULE Spec2Model ----------------------------
(***************************************************************************)
(* A model of organize_photos.py (class PhotoOrganizer).                   *)
(*                                                                         *)
(* Representation.                                                         *)
(*   - A Python str is a sequence of one-character strings, so that        *)
(*     slicing, searching and concatenation are computed, not assumed.     *)
(*   - A datetime is the tuple <<Y, m, d, H, M, S>>.                       *)
(*   - An Optional result that is None is a record [t |-> "None"].         *)
(*   - A dict is a function whose DOMAIN is the set of keys present.       *)
(*   - An EXIF date string of the shape "dddd:dd:dd dd:dd:dd" is the tuple *)
(*     of its six numbers; any other string is the empty tuple.            *)
(*   - A decimal coordinate is held in arc-seconds (degrees * 3600), so    *)
(*     d + m/60 + s/3600 is the integer 3600 d + 60 m + s.                 *)
(***************************************************************************)
EXTENDS Integers, Sequences, FiniteSets, TLC

VARIABLES
    source,           \* files in source_dir: set of [name, meta, born]
    dest,             \* files under destination_dir: path -> content
    folders,          \* folders that exist under destination_dir
    photo_files,      \* the listing taken by organize_photos (a sequence)
    idx,              \* position of the for loop in photo_files
    pc,               \* where the program is
    cur,              \* locals of the running process_photo
    processed_count,  \* self.processed_count
    error_count,      \* self.error_count
    runs,             \* number of times main() has been started
    elapsed,          \* seconds since the last reverse() request (saturating)
    requests,         \* reverse() requests issued for the current file
    inflight,         \* reverse() requests awaiting their answer
    calls,            \* files process_photo was called with, in order
    last,             \* how the last process_photo call ended
    arg,              \* the argument of the function under test
    ret               \* its result

vars == <<source, dest, folders, photo_files, idx, pc, cur, processed_count,
          error_count, runs, elapsed, requests, inflight, calls, last, arg, ret>>

---------------------------------------------------------------------------
(* Python values *)

PyNone == [t |-> "None"]

PyStr(s) == [t |-> "str", v |-> s]

\* bool(x) for None and for str
Truthy(x) == x.t = "str" /\ x.v # <<>>

\* str(x) as an f-string formats it
Format(x) == IF x.t = "None" THEN <<"N", "o", "n", "e">> ELSE x.v

Digits == <<"0", "1", "2", "3", "4", "5", "6", "7", "8", "9">>

IsDigit(c) == \E i \in 1..10 : Digits[i] = c

DigitVal(c) == (CHOOSE i \in 1..10 : Digits[i] = c) - 1

RECURSIVE StrToInt(_)
\* int(s) for a string of decimal digits
StrToInt(s) ==
    IF s = <<>> THEN 0
    ELSE 10 * StrToInt(SubSeq(s, 1, Len(s) - 1)) + DigitVal(s[Len(s)])

RECURSIVE IntToStr(_)
\* str(n) for n >= 0
IntToStr(n) ==
    IF n < 10 THEN <<Digits[n + 1]>>
    ELSE IntToStr(n \div 10) \o <<Digits[(n % 10) + 1]>>

RECURSIVE ZeroPad(_, _)
\* s left-padded with "0" to width w
ZeroPad(s, w) == IF Len(s) >= w THEN s ELSE ZeroPad(<<"0">> \o s, w)

---------------------------------------------------------------------------
(* datetime *)

IsLeap(y) == (y % 4 = 0 /\ y % 100 # 0) \/ y % 400 = 0

DaysInMonth(y, m) ==
    IF m = 2 THEN (IF IsLeap(y) THEN 29 ELSE 28)
    ELSE IF m \in {4, 6, 9, 11} THEN 30 ELSE 31

\* the argument check of datetime(year, month, day, hour, minute, second)
ValidDateTime(y, m, d, H, M, S) ==
    /\ y \in 1..9999
    /\ m \in 1..12
    /\ d >= 1 /\ d <= DaysInMonth(y, m)
    /\ H \in 0..23 /\ M \in 0..59 /\ S \in 0..59

\* datetime.strptime(str(v), '%Y:%m:%d %H:%M:%S'): the datetime, or None where
\* the code catches the exception
ParseExifDate(v) ==
    IF Len(v) = 6 /\ ValidDateTime(v[1], v[2], v[3], v[4], v[5], v[6])
    THEN [t |-> "datetime", v |-> v]
    ELSE PyNone

\* the generic timestamp tried first
DateTagsSwapped == <<"DateTime", "DateTimeOriginal", "DateTimeDigitized">>

DateTags == <<"DateTimeOriginal", "DateTime", "DateTimeDigitized">>

RECURSIVE DateFromTags(_, _)
\* the for loop of get_date_from_exif from the i-th tag on
DateFromTags(exif_data, i) ==
    IF i > Len(DateTags) THEN PyNone
    ELSE IF DateTags[i] \in DOMAIN exif_data
               /\ ParseExifDate(exif_data[DateTags[i]]) # PyNone
         THEN ParseExifDate(exif_data[DateTags[i]])
         ELSE DateFromTags(exif_data, i + 1)

get_date_from_exif(exif_data) == DateFromTags(exif_data, 1)

IsSep(c) == c \in {"-", "_"}

AllDigits(s, i, n) ==
    /\ i + n - 1 <= Len(s)
    /\ \A k \in i..(i + n - 1) : IsDigit(s[k])

\* no separator allowed between the groups
SkipSepNever(s, j) == j

\* where [-_]? leaves the cursor: the separator is taken when it is there
SkipSep(s, j) == IF j <= Len(s) /\ IsSep(s[j]) THEN j + 1 ELSE j

\* r'(\d{4})[-_]?(\d{2})[-_]?(\d{2})' matched at position i: its groups or <<>>
MatchYMDAt(s, i) ==
    IF ~AllDigits(s, i, 4) THEN <<>>
    ELSE LET j == SkipSep(s, i + 4) IN
         IF ~AllDigits(s, j, 2) THEN <<>>
         ELSE LET k == SkipSep(s, j + 2) IN
              IF ~AllDigits(s, k, 2) THEN <<>>
              ELSE <<SubSeq(s, i, i + 3), SubSeq(s, j, j + 1),
                     SubSeq(s, k, k + 1)>>

\* r'(\d{8})' matched at position i: its group or <<>>
MatchD8At(s, i) ==
    IF AllDigits(s, i, 8) THEN <<SubSeq(s, i, i + 7)>> ELSE <<>>

\* re.search with the first pattern: the groups of the leftmost match
SearchYMD(s) ==
    IF \E i \in 1..Len(s) : MatchYMDAt(s, i) # <<>>
    THEN MatchYMDAt(s, CHOOSE i \in 1..Len(s) :
                          /\ MatchYMDAt(s, i) # <<>>
                          /\ \A h \in 1..(i - 1) : MatchYMDAt(s, h) = <<>>)
    ELSE <<>>

\* re.search with the second pattern
SearchD8(s) ==
    IF \E i \in 1..Len(s) : MatchD8At(s, i) # <<>>
    THEN MatchD8At(s, CHOOSE i \in 1..Len(s) :
                         /\ MatchD8At(s, i) # <<>>
                         /\ \A h \in 1..(i - 1) : MatchD8At(s, h) = <<>>)
    ELSE <<>>

\* year, month, day as the loop body takes them from a match's groups
GroupsToYMD(g) ==
    IF Len(g) = 3 THEN <<StrToInt(g[1]), StrToInt(g[2]), StrToInt(g[3])>>
    ELSE <<StrToInt(SubSeq(g[1], 1, 4)), StrToInt(SubSeq(g[1], 5, 6)),
           StrToInt(SubSeq(g[1], 7, 8))>>

\* one turn of the loop over patterns: the datetime, or None on no match or
\* on the ValueError of datetime()
DateFromMatch(g) ==
    IF g = <<>> THEN PyNone
    ELSE LET ymd == GroupsToYMD(g) IN
         IF ValidDateTime(ymd[1], ymd[2], ymd[3], 0, 0, 0)
         THEN [t |-> "datetime", v |-> <<ymd[1], ymd[2], ymd[3], 0, 0, 0>>]
         ELSE PyNone

get_date_from_filename(filename) ==
    IF DateFromMatch(SearchYMD(filename)) # PyNone
    THEN DateFromMatch(SearchYMD(filename))
    ELSE DateFromMatch(SearchD8(filename))

SecondsPerDay == 86400

EpochYear == 1970

DaysInYear(y) == IF IsLeap(y) THEN 366 ELSE 365

RECURSIVE YearOfDay(_, _)
\* <<year, day of the year from 0>> of a day count that starts at 1 January y
YearOfDay(y, n) ==
    IF n < DaysInYear(y) THEN <<y, n>> ELSE YearOfDay(y + 1, n - DaysInYear(y))

RECURSIVE MonthOfDay(_, _, _)
\* <<month, day of the month>> of day n (from 0) of month m and after, year y
MonthOfDay(y, m, n) ==
    IF n < DaysInMonth(y, m) THEN <<m, n + 1>>
    ELSE MonthOfDay(y, m + 1, n - DaysInMonth(y, m))

\* datetime.fromtimestamp(ts), the local zone taken to be UTC
FromTimestamp(ts) ==
    LET yd == YearOfDay(EpochYear, ts \div SecondsPerDay)
        md == MonthOfDay(yd[1], 1, yd[2])
        r  == ts % SecondsPerDay
    IN [t |-> "datetime",
        v |-> <<yd[1], md[1], md[2], r \div 3600, (r % 3600) \div 60, r % 60>>]

\* image_path.stat() raised (a file that cannot be read)
StatError == [t |-> "OSError"]

\* get_photo_date: stat is the st_mtime the file system answers, or StatError;
\* the result is a datetime or the exception that leaves the function
get_photo_date(name, exif_data, stat) ==
    IF get_date_from_exif(exif_data) # PyNone THEN get_date_from_exif(exif_data)
    ELSE IF get_date_from_filename(name) # PyNone
         THEN get_date_from_filename(name)
         ELSE IF stat = StatError THEN StatError
              ELSE FromTimestamp(stat.st_mtime)

\* photo_date.strftime('%Y-%m-%d')
DateStr(date) ==
    ZeroPad(IntToStr(date.v[1]), 4) \o <<"-">> \o ZeroPad(IntToStr(date.v[2]), 2)
        \o <<"-">> \o ZeroPad(IntToStr(date.v[3]), 2)

---------------------------------------------------------------------------
(* GPS *)

\* PIL.ExifTags.GPSTAGS, the four tags the code reads
GPSTAGS ==
    (1 :> "GPSLatitudeRef") @@ (2 :> "GPSLatitude")
        @@ (3 :> "GPSLongitudeRef") @@ (4 :> "GPSLongitude")

\* the inverse of the decode loop: gps_data[name] is gps_info[key]
GpsKey(name) == CHOOSE k \in DOMAIN GPSTAGS : GPSTAGS[k] = name

GpsHas(gps_info, name) == GpsKey(name) \in DOMAIN gps_info

GpsGet(gps_info, name) == gps_info[GpsKey(name)]

\* "d, m, s = value" raises unless value holds three items
ConvertRaises(value) == Len(value) # 3

ArcSecondsPerDegree == 3600

ArcSecondsPerMinute == 60

\* float(d) + float(m)/60.0 + float(s)/3600.0, in arc-seconds
convert_to_degrees(value) ==
    value[1] * ArcSecondsPerDegree + value[2] * ArcSecondsPerMinute + value[3]

\* the reference tags ignored
ApplyRefNever(x, gps_info, tag, ref) == x

\* -x when the reference tag is present and equal to ref
ApplyRef(x, gps_info, tag, ref) ==
    IF GpsHas(gps_info, tag) /\ GpsGet(gps_info, tag) = ref THEN -x ELSE x

get_gps_coordinates(exif_data) ==
    IF "GPSInfo" \notin DOMAIN exif_data \/ DOMAIN exif_data["GPSInfo"] = {}
    THEN PyNone
    ELSE LET gps_info == exif_data["GPSInfo"] IN
         IF ~GpsHas(gps_info, "GPSLatitude") \/ ~GpsHas(gps_info, "GPSLongitude")
         THEN PyNone
         ELSE IF ConvertRaises(GpsGet(gps_info, "GPSLatitude"))
                   \/ ConvertRaises(GpsGet(gps_info, "GPSLongitude"))
              THEN PyNone
              ELSE [t   |-> "tuple",
                    lat |-> ApplyRef(convert_to_degrees(GpsGet(gps_info, "GPSLatitude")),
                                     gps_info, "GPSLatitudeRef", "S"),
                    lon |-> ApplyRef(convert_to_degrees(GpsGet(gps_info, "GPSLongitude")),
                                     gps_info, "GPSLongitudeRef", "W")]

---------------------------------------------------------------------------
(* Reverse geocoding *)

\* the fallback label
Inconnu == <<"I", "n", "c", "o", "n", "n", "u">>

\* dict.get(key) and dict.get(key, default)
Get(d, k) == IF k \in DOMAIN d THEN d[k] ELSE PyNone

GetDefault(d, k, default) == IF k \in DOMAIN d THEN d[k] ELSE default

\* the "or" chain over the address fields
CityFromAddress(address) ==
    IF Truthy(Get(address, "village")) THEN Get(address, "village")
    ELSE IF Truthy(Get(address, "town")) THEN Get(address, "town")
    ELSE IF Truthy(Get(address, "city")) THEN Get(address, "city")
    ELSE IF Truthy(Get(address, "municipality")) THEN Get(address, "municipality")
    ELSE GetDefault(address, "county", PyStr(Inconnu))

\* an except clause that returns nothing
CityFromResponseNoReturn(response) ==
    IF response.t = "raise" THEN PyNone
    ELSE IF response.t = "None" THEN PyStr(Inconnu)
    ELSE IF "address" \in DOMAIN response.raw
              /\ DOMAIN response.raw["address"] # {}
         THEN CityFromAddress(response.raw["address"])
         ELSE PyStr(Inconnu)

\* what get_city_from_coordinates returns for the answer of geolocator.reverse:
\* an exception raised, None, or a Location with its raw dict
CityFromResponse(response) ==
    IF response.t = "raise" THEN PyStr(Inconnu)
    ELSE IF response.t = "None" THEN PyStr(Inconnu)
    ELSE IF "address" \in DOMAIN response.raw
              /\ DOMAIN response.raw["address"] # {}
         THEN CityFromAddress(response.raw["address"])
         ELSE PyStr(Inconnu)

---------------------------------------------------------------------------
(* Paths *)

UpperCase == <<"A", "B", "C", "D", "E", "F", "G", "H", "I", "J", "K", "L", "M",
               "N", "O", "P", "Q", "R", "S", "T", "U", "V", "W", "X", "Y", "Z">>

LowerCase == <<"a", "b", "c", "d", "e", "f", "g", "h", "i", "j", "k", "l", "m",
               "n", "o", "p", "q", "r", "s", "t", "u", "v", "w", "x", "y", "z">>

LowerChar(c) ==
    IF \E i \in 1..26 : UpperCase[i] = c
    THEN LowerCase[CHOOSE i \in 1..26 : UpperCase[i] = c]
    ELSE c

\* str.lower()
Lower(s) == [i \in 1..Len(s) |-> LowerChar(s[i])]

\* name.rfind('.') counted from 1; 0 when there is no dot
LastDot(name) ==
    IF \E i \in 1..Len(name) : name[i] = "."
    THEN CHOOSE i \in 1..Len(name) :
             name[i] = "." /\ \A k \in (i + 1)..Len(name) : name[k] # "."
    ELSE 0

\* PurePath.suffix
Suffix(name) ==
    IF 1 < LastDot(name) /\ LastDot(name) < Len(name)
    THEN SubSeq(name, LastDot(name), Len(name))
    ELSE <<>>

\* PurePath.stem
Stem(name) ==
    IF 1 < LastDot(name) /\ LastDot(name) < Len(name)
    THEN SubSeq(name, 1, LastDot(name) - 1)
    ELSE name

photo_extensions ==
    { <<".", "j", "p", "g">>, <<".", "j", "p", "e", "g">>, <<".", "p", "n", "g">>,
      <<".", "h", "e", "i", "c">>, <<".", "h", "e", "i", "f">>,
      <<".", "r", "a", "w">>, <<".", "c", "r", "2">>, <<".", "n", "e", "f">>,
      <<".", "a", "r", "w">> }

\* the filter of the listing
IsPhoto(name) == Lower(Suffix(name)) \in photo_extensions

\* f"{date_str} - {city}"
FolderName(date_str, city) == date_str \o <<" ", "-", " ">> \o Format(city)

\* Path.exists() of destination_folder / name, in the file tree fs
Exists(fs, folder, name) == <<folder, name>> \in DOMAIN fs

RECURSIVE UniqueFrom(_, _, _, _, _)
\* the while loop of get_unique_filename, entered with the counter at c
UniqueFrom(fs, folder, stem, suffix, c) ==
    LET new_name == stem \o <<"_">> \o IntToStr(c) \o suffix IN
    IF Exists(fs, folder, new_name)
    THEN UniqueFrom(fs, folder, stem, suffix, c + 1)
    ELSE new_name

\* the path returned as it was given
GetUniqueNoCheck(fs, folder, name) == name

\* the counter started at 2
GetUniqueFromTwo(fs, folder, name) ==
    IF ~Exists(fs, folder, name) THEN name
    ELSE UniqueFrom(fs, folder, Stem(name), Suffix(name), 2)

\* get_unique_filename(folder / name): the name of the path returned
get_unique_filename(fs, folder, name) ==
    IF ~Exists(fs, folder, name) THEN name
    ELSE UniqueFrom(fs, folder, Stem(name), Suffix(name), 1)

---------------------------------------------------------------------------
(* Bounds and the files of the model *)

\* times main() is started
MaxRuns == 2

\* the value at which the seconds since the last request stop counting
MaxGap == 1

\* characters put before and after a date in a file name
MaxPad == 2

\* largest degrees, minutes or seconds value of a GPS triple
MaxDms == 1

NameA == <<"a", ".", "J", "P", "G">>

NameA1 == <<"a", "_", "1", ".", "J", "P", "G">>

NameTxt == <<"n", ".", "t", "x", "t">>

\* 2022-01-05 09:03:20 UTC
Mtime == 1641373400

\* "2022:01:05 10:20:30"
ExifDate == <<2022, 1, 5, 10, 20, 30>>

EmptyDict == [k \in {} |-> PyNone]

\* 48 deg 51' 24" N, 2 deg 21' 3" E
GpsParis ==
    (1 :> "N") @@ (2 :> <<48, 51, 24>>) @@ (3 :> "E") @@ (4 :> <<2, 21, 3>>)

\* what _getexif() gives for a photo taken with a GPS receiver
ExifGps == ("DateTimeOriginal" :> ExifDate) @@ ("GPSInfo" :> GpsParis)

\* the photos a user may put in the source directory: image is what
\* Image.open and _getexif make of the file
Library ==
    { [name |-> NameA, image |-> "exif", exif |-> ExifGps, st_mtime |-> Mtime],
      [name |-> NameA, image |-> "corrupt", exif |-> ExifGps, st_mtime |-> Mtime],
      [name |-> NameA1, image |-> "exif", exif |-> ExifGps, st_mtime |-> Mtime] }

\* a file of the source directory that is no photo
Notes == [name |-> NameTxt, image |-> "corrupt", exif |-> ExifGps,
          st_mtime |-> Mtime, born |-> 0]

\* get_exif_data: the tags, or {} when there are none or the file cannot be read
get_exif_data(file) == IF file.image = "exif" THEN file.exif ELSE EmptyDict

Paris == <<"P", "a", "r", "i", "s">>

\* answers of geolocator.reverse
Responses ==
    { [t |-> "raise", exc |-> "GeocoderTimedOut"],
      [t |-> "raise", exc |-> "GeocoderServiceError"],
      [t |-> "raise", exc |-> "Exception"],
      [t |-> "None"],
      [t |-> "Location", raw |-> ("address" :> ("city" :> PyStr(Paris)))] }

FolderInconnu == FolderName(DateStr(ParseExifDate(ExifDate)), PyStr(Inconnu))

\* a file that may lie in the destination tree before the first run
OldFile == [name |-> NameA, image |-> "old", born |-> 0]

PreExisting == (<<FolderInconnu, NameA>> :> OldFile)

NoCur ==
    [file |-> PyNone, exif_data |-> EmptyDict, photo_date |-> PyNone,
     coordinates |-> PyNone, city |-> PyNone, slept |-> 0, geo |-> "none"]

NoLast == [outcome |-> "none"]

\* no reverse() request was issued in this run
NoRequest == -1

Pending == [t |-> "pending"]

NamesOf(files) == { f.name : f \in files }

\* sets of files with distinct names
DistinctNames(files) == Cardinality(NamesOf(files)) = Cardinality(files)

\* the orders in which iterdir may give the files
Orderings(files) ==
    { o \in [1..Cardinality(files) -> files] :
        \A i, j \in 1..Cardinality(files) : i # j => o[i] # o[j] }

\* a file as it lies in the source directory, put there before run r
Put(f, r) == [name |-> f.name, image |-> f.image, exif |-> f.exif,
              st_mtime |-> f.st_mtime, born |-> r]

\* the directory after the user added the files new before run r
AddFiles(dir, new, r) == dir \cup { Put(f, r) : f \in new }

CanAdd(dir, new) ==
    /\ DistinctNames(new)
    /\ NamesOf(new) \cap NamesOf(dir) = {}

FoldersOf(fs) == { p[1] : p \in DOMAIN fs }

---------------------------------------------------------------------------
(* The program *)

\* __init__, with the source directory filled and the destination tree as the
\* user left it
Init ==
    /\ \E new \in SUBSET Library :
          /\ CanAdd({Notes}, new)
          /\ source = AddFiles({Notes}, new, 1)
    /\ \E old \in SUBSET DOMAIN PreExisting :
          dest = [p \in old |-> PreExisting[p]]
    /\ folders = FoldersOf(dest)
    /\ photo_files = <<>>
    /\ idx = 1
    /\ pc = "main"
    /\ cur = NoCur
    /\ processed_count = 0
    /\ error_count = 0
    /\ runs = 1
    /\ elapsed = NoRequest
    /\ requests = 0
    /\ inflight = 0
    /\ calls = <<>>
    /\ last = NoLast
    /\ arg = PyNone
    /\ ret = PyNone

\* a sleep that may return at once
SleepSecondsNone == {0, 1}

\* seconds time.sleep(1) may take: the second asked for, or longer
SleepSeconds == {1, 2}

\* seconds the answer of reverse() may take
ResponseSeconds == {0, 1}

\* the clock of the last request after d more seconds
Later(e, d) ==
    IF e = NoRequest THEN NoRequest
    ELSE IF e + d > MaxGap THEN MaxGap ELSE e + d

\* the clock of the last request is of no use once the program has ended
AtEnd(where, e) == IF where = "done" THEN NoRequest ELSE e

\* where the for loop goes after the file at position i
AfterFile(i) == IF i + 1 > Len(photo_files) THEN "done" ELSE "loop"

\* an exception that reaches organize_photos ends the program
AfterErrorAbort(i) == "done"

\* where the for loop goes after a file whose exception process_photo caught
AfterError(i) == AfterFile(i)

\* both counters incremented
CountBoth(p, e) == <<p + 1, e + 1>>

\* the except branch of process_photo: <<processed_count, error_count>> after it
ProcessPhotoExcept(p, e) == <<p, e + 1>>

\* the end of the try block of process_photo
ProcessPhotoSuccess(p, e) == <<p + 1, e>>

\* the files of the listing of organize_photos
ListedFiles(dir) == { f \in dir : IsPhoto(f.name) }

\* organize_photos up to the for loop: the listing, and the early return when
\* it is empty
Listing ==
    /\ pc = "main"
    /\ \E o \in Orderings(ListedFiles(source)) :
          /\ photo_files' = o
          /\ pc' = IF o = <<>> THEN "done" ELSE "loop"
    /\ idx' = 1
    /\ UNCHANGED <<source, dest, folders, cur, processed_count, error_count,
                   runs, elapsed, requests, inflight, calls, last, arg, ret>>

\* process_photo is left through its except branch
Fail(file, stage, date, city) ==
    /\ processed_count' = ProcessPhotoExcept(processed_count, error_count)[1]
    /\ error_count' = ProcessPhotoExcept(processed_count, error_count)[2]
    /\ last' = [outcome |-> "error", file |-> file, stage |-> stage,
                photo_date |-> date, city |-> city, folder |-> <<>>,
                name |-> <<>>, geo |-> cur.geo,
                coordinates |-> cur.coordinates,
                before |-> <<processed_count, error_count>>]
    /\ cur' = NoCur
    /\ pc' = AfterError(idx)
    /\ idx' = idx + 1
    /\ elapsed' = AtEnd(AfterError(idx), elapsed)
    /\ UNCHANGED <<source, dest>>

\* process_photo from its call to the GPS decision: EXIF, date, coordinates
ReadPhoto ==
    /\ pc = "loop"
    /\ LET file == photo_files[idx]
           exif_data == get_exif_data(file)
           coordinates == get_gps_coordinates(exif_data)
       IN /\ calls' = Append(calls, file)
          /\ requests' = 0
          /\ \E stat \in {[t |-> "stat", st_mtime |-> file.st_mtime], StatError} :
                LET photo_date == get_photo_date(file.name, exif_data, stat) IN
                IF photo_date = StatError
                THEN /\ Fail(file, "date", PyNone, PyNone)
                     /\ UNCHANGED folders
                ELSE /\ cur' = [file |-> file, exif_data |-> exif_data,
                                photo_date |-> photo_date,
                                coordinates |-> coordinates,
                                city |-> IF coordinates # PyNone THEN PyNone
                                         ELSE PyStr(Inconnu),
                                slept |-> 0, geo |-> "none"]
                     /\ pc' = IF coordinates # PyNone THEN "sleep" ELSE "move"
                     /\ UNCHANGED <<source, dest, folders, idx, processed_count,
                                    error_count, last, elapsed>>
    /\ UNCHANGED <<photo_files, runs, inflight, arg, ret>>

\* time.sleep(1) of get_city_from_coordinates
Sleep ==
    /\ pc = "sleep"
    /\ \E d \in SleepSeconds :
          /\ cur' = [cur EXCEPT !.slept = d]
          /\ elapsed' = Later(elapsed, d)
    /\ pc' = "request"
    /\ UNCHANGED <<source, dest, folders, photo_files, idx, processed_count,
                   error_count, runs, requests, inflight, calls, last, arg, ret>>

\* the request of geolocator.reverse goes out
Request ==
    /\ pc = "request"
    /\ requests' = requests + 1
    /\ inflight' = inflight + 1
    /\ elapsed' = 0
    /\ pc' = "response"
    /\ UNCHANGED <<source, dest, folders, photo_files, idx, cur, processed_count,
                   error_count, runs, calls, last, arg, ret>>

\* how the call of reverse() ended: "raise", "None" or "Location"
GeoOutcome(r) == r.t

\* reverse() returns or raises; get_city_from_coordinates returns the city
Response ==
    /\ pc = "response"
    /\ \E r \in Responses, d \in ResponseSeconds :
          /\ cur' = [cur EXCEPT !.geo = GeoOutcome(r),
                                 !.city = CityFromResponse(r)]
          /\ elapsed' = Later(elapsed, d)
    /\ inflight' = inflight - 1
    /\ pc' = "move"
    /\ UNCHANGED <<source, dest, folders, photo_files, idx, processed_count,
                   error_count, runs, requests, calls, last, arg, ret>>

\* the tree after shutil.move of file to folder / name (a rename replaces what
\* lies at its target)
Moved(fs, folder, name, file) ==
    [p \in DOMAIN fs \cup {<<folder, name>>} |->
        IF p = <<folder, name>> THEN file ELSE fs[p]]

\* the rest of process_photo: mkdir, get_unique_filename, shutil.move, counters.
\* mkdir and move succeed or raise, as the file system decides
Move ==
    /\ pc = "move"
    /\ LET file == cur.file
           folder_name == FolderName(DateStr(cur.photo_date), cur.city)
           name == get_unique_filename(dest, folder_name, file.name)
       IN \/ /\ Fail(file, "mkdir", cur.photo_date, cur.city)
             /\ UNCHANGED folders
          \/ /\ Fail(file, "move", cur.photo_date, cur.city)
             /\ folders' = folders \cup {folder_name}
          \/ /\ folders' = folders \cup {folder_name}
             /\ dest' = Moved(dest, folder_name, name, file)
             /\ source' = source \ {file}
             /\ processed_count' = ProcessPhotoSuccess(processed_count, error_count)[1]
             /\ error_count' = ProcessPhotoSuccess(processed_count, error_count)[2]
             /\ last' = [outcome |-> "moved", file |-> file, stage |-> "done",
                         photo_date |-> cur.photo_date, city |-> cur.city,
                         folder |-> folder_name, name |-> name,
                         geo |-> cur.geo,
                         coordinates |-> cur.coordinates,
                         before |-> <<processed_count, error_count>>]
             /\ cur' = NoCur
             /\ pc' = AfterFile(idx)
             /\ idx' = idx + 1
             /\ elapsed' = AtEnd(AfterFile(idx), elapsed)
    /\ UNCHANGED <<photo_files, runs, requests, inflight, calls, arg, ret>>

\* the program has ended; the user adds files and starts main() again
Restart ==
    /\ pc = "done"
    /\ runs < MaxRuns
    /\ \E new \in SUBSET Library :
          /\ CanAdd(source, new)
          /\ source' = AddFiles(source, new, runs + 1)
    /\ runs' = runs + 1
    /\ photo_files' = <<>>
    /\ idx' = 1
    /\ pc' = "main"
    /\ cur' = NoCur
    /\ processed_count' = 0
    /\ error_count' = 0
    /\ elapsed' = NoRequest
    /\ requests' = 0
    /\ inflight' = 0
    /\ calls' = <<>>
    /\ last' = NoLast
    /\ UNCHANGED <<dest, folders, arg, ret>>

Next == Listing \/ ReadPhoto \/ Sleep \/ Request \/ Response \/ Move \/ Restart

Spec == Init /\ [][Next]_vars

---------------------------------------------------------------------------
(* The functions of the pipeline, each applied to inputs of its own *)

\* the program's variables while a function is applied on its own
Idle ==
    /\ source = {}
    /\ dest = EmptyDict
    /\ folders = {}
    /\ photo_files = <<>>
    /\ idx = 1
    /\ pc = "call"
    /\ cur = NoCur
    /\ processed_count = 0
    /\ error_count = 0
    /\ runs = 1
    /\ elapsed = NoRequest
    /\ requests = 0
    /\ inflight = 0
    /\ calls = <<>>
    /\ last = NoLast

IdleVars == <<source, dest, folders, photo_files, idx, cur, processed_count,
              error_count, runs, elapsed, requests, inflight, calls, last>>

\* the strings over chars of length at most n
StringsUpTo(chars, n) == UNION { [1..k -> chars] : k \in 0..n }

\* values of an EXIF date tag: not of the date shape, a date, no calendar date
TagValues(i) == { <<>>, <<2022, 1, 5 + i, 10, 20, 30>>, <<2022, 2, 30, 10, 20, 30>> }

\* EXIF mappings over the three date tags
DateExifs ==
    { e \in UNION { [tags -> UNION { TagValues(i) : i \in 0..2 }] :
                      tags \in SUBSET { DateTags[i] : i \in 1..3 } } :
        \A i \in 1..3 : DateTags[i] \in DOMAIN e => e[DateTags[i]] \in TagValues(i - 1) }

\* "20230615", "2023-06-15", "2023_06_15"
Cores ==
    { <<"2", "0", "2", "3">> \o sep \o <<"0", "6">> \o sep \o <<"1", "5">> :
        sep \in { <<>>, <<"-">>, <<"_">> } }

PadChars == {"1", "_", "x"}

Jpg == <<".", "j", "p", "g">>

\* file names without a date, and with a date that is none
PlainNames ==
    { <<"a">> \o Jpg,
      <<"2", "0", "2", "3", "1", "3", "0", "1">> \o Jpg,
      <<"2", "0", "2", "1", "-", "0", "3", "-", "0", "4">> \o Jpg }

Stats == { [t |-> "stat", st_mtime |-> Mtime],
           [t |-> "stat", st_mtime |-> 1709164800],
           StatError }

\* inputs of get_photo_date: any date tags with a plain name, and no date tag
\* with a name that holds one of the three date strings
DateInputs ==
    { [name |-> n, pre |-> <<>>, core |-> <<>>, exif_data |-> e, stat |-> st] :
        n \in PlainNames \cup { c \o Jpg : c \in Cores }, e \in DateExifs,
        st \in Stats }
    \cup
    { [name |-> pre \o core \o post \o Jpg, pre |-> pre, core |-> core,
       exif_data |-> e, stat |-> st] :
        pre \in StringsUpTo(PadChars, MaxPad), core \in Cores,
        post \in StringsUpTo(PadChars, MaxPad),
        e \in {EmptyDict, ("GPSInfo" :> GpsParis)},
        st \in {[t |-> "stat", st_mtime |-> Mtime]} }

InitDate ==
    /\ Idle
    /\ arg \in DateInputs
    /\ ret = Pending

ApplyDate ==
    /\ ret = Pending
    /\ ret' = get_photo_date(arg.name, arg.exif_data, arg.stat)
    /\ UNCHANGED <<IdleVars, pc, arg>>

SpecDate == InitDate /\ [][ApplyDate]_vars

\* values of a GPS triple tag: every triple within the bound, and a pair
GpsValues ==
    { <<d, m, s>> : d \in 0..MaxDms, m \in 0..MaxDms, s \in 0..MaxDms }
        \cup { <<48, 51>> }

\* GPSInfo mappings: the latitude and longitude tags with or without references
GpsInfos ==
    UNION { { (2 :> lat) @@ (4 :> lon) @@ refs :
                lat \in GpsValues, lon \in GpsValues }
            : refs \in UNION { [ks -> {"N", "S", "E", "W"}] : ks \in SUBSET {1, 3} } }

GpsInputs ==
    { ("GPSInfo" :> g) : g \in GpsInfos }
        \cup { EmptyDict, ("GPSInfo" :> EmptyDict), ("GPSInfo" :> (2 :> <<1, 1, 1>>)),
               ("GPSInfo" :> ((1 :> "S") @@ (4 :> <<1, 1, 1>>))) }

InitGps ==
    /\ Idle
    /\ arg \in GpsInputs
    /\ ret = Pending

ApplyGps ==
    /\ ret = Pending
    /\ ret' = get_gps_coordinates(arg)
    /\ UNCHANGED <<IdleVars, pc, arg>>

SpecGps == InitGps /\ [][ApplyGps]_vars

AddressFields == <<"village", "town", "city", "municipality", "county">>

\* values of an address field: null, empty, a name of its own
FieldValues(i) == { PyNone, PyStr(<<>>), PyStr(<<AddressFields[i]>>) }

Addresses ==
    { a \in UNION { [fs -> UNION { FieldValues(i) : i \in 1..5 }] :
                      fs \in SUBSET { AddressFields[i] : i \in 1..5 } } :
        \A i \in 1..5 :
            AddressFields[i] \in DOMAIN a => a[AddressFields[i]] \in FieldValues(i) }

CityInputs ==
    { [t |-> "Location", raw |-> ("address" :> a)] : a \in Addresses }
        \cup { [t |-> "Location", raw |-> EmptyDict] }
        \cup { r \in Responses : r.t # "Location" }

InitCity ==
    /\ Idle
    /\ arg \in CityInputs
    /\ ret = Pending

ApplyCity ==
    /\ ret = Pending
    /\ ret' = CityFromResponse(arg)
    /\ UNCHANGED <<IdleVars, pc, arg>>

SpecCity == InitCity /\ [][ApplyCity]_vars

---------------------------------------------------------------------------
(* Claims *)

\* a step that ends a call of process_photo
Finishes == idx' = idx + 1

\* a step that ends a call of process_photo with the file moved
FinishesMoved == Finishes /\ last'.outcome = "moved"

\* C1: no step of the program removes or changes a file that lies under the
\* destination root, and the path handed to shutil.move, the result of
\* get_unique_filename, does not exist when the move is made.
C1_NoOverwriteStep ==
    /\ \A p \in DOMAIN dest : p \in DOMAIN dest' /\ dest'[p] = dest[p]
    /\ FinishesMoved => ~Exists(dest, last'.folder, last'.name)

\* C1: every step of the program keeps each file of the destination tree, at
\* its path and with its content, and moves only to a path that was free.
C1_NoOverwrite == [][C1_NoOverwriteStep]_vars

\* a file was moved to a folder where its name was taken, and the file that
\* had the name is still there
C1_Witness ==
    /\ last.outcome = "moved"
    /\ last.name # last.file.name
    /\ Exists(dest, last.folder, last.file.name)
    /\ dest[<<last.folder, last.file.name>>] # last.file
    /\ dest[<<last.folder, last.name>>] = last.file

\* the paths of the destination tree that hold file
PathsOf(fs, file) == { p \in DOMAIN fs : fs[p] = file }

\* C2: a call of process_photo ends in exactly one of two ways: (a) the file
\* has left the source directory and lies at one destination path that no
\* file had, processed_count is one more and error_count is unchanged; or
\* (b) the file is still in the source directory, no destination path holds
\* it, error_count is one more and processed_count is unchanged.
C2_OutcomeMoved(file) ==
    /\ file \notin source'
    /\ Cardinality(PathsOf(dest', file)) = 1
    /\ PathsOf(dest', file) \cap DOMAIN dest = {}
    /\ processed_count' = processed_count + 1
    /\ error_count' = error_count

C2_OutcomeError(file) ==
    /\ file \in source'
    /\ PathsOf(dest', file) = {}
    /\ error_count' = error_count + 1
    /\ processed_count' = processed_count

C2_TwoOutcomesStep ==
    Finishes =>
        /\ photo_files[idx] \in source
        /\ C2_OutcomeMoved(photo_files[idx]) \/ C2_OutcomeError(photo_files[idx])
        /\ ~(C2_OutcomeMoved(photo_files[idx]) /\ C2_OutcomeError(photo_files[idx]))

Numbered(name, k) ==
    IF k = 0 THEN name
    ELSE Stem(name) \o <<"_">> \o IntToStr(k) \o Suffix(name)

\* C3: the name a file is moved to is its own name when that is free in the
\* folder as it is at the move, and otherwise stem_k.ext for the smallest
\* k >= 1 that is free.
C3_SmallestFreeStep ==
    FinishesMoved =>
        LET f == last'.folder
            o == last'.file.name
            n == last'.name
        IN /\ dest'[<<f, n>>] = last'.file
           /\ ~Exists(dest, f, o) => n = o
           /\ Exists(dest, f, o) =>
                \E k \in 1..(Cardinality(DOMAIN dest) + 1) :
                    /\ n = Numbered(o, k)
                    /\ ~Exists(dest, f, n)
                    /\ \A j \in 1..(k - 1) : Exists(dest, f, Numbered(o, j))

\* the files of one folder
FilesIn(fs, folder) == { p \in DOMAIN fs : p[1] = folder }

\* C3, the sequence: in a folder that holds only files of one original name,
\* moved there one after another, the first has the name itself, the second
\* stem_1.ext, the third stem_2.ext, and so on.
C3_Sequence ==
    \A folder \in FoldersOf(dest) :
        LET here == FilesIn(dest, folder) IN
        (\A p, q \in here : dest[p].name = dest[q].name) =>
            \A p \in here :
                p[2] = Numbered(dest[p].name,
                         Cardinality({ q \in here : dest[q].born < dest[p].born }))

\* C3: every move takes the original name when free and else the least free
\* stem_k.ext, and same-named files of one folder are numbered in their order.
C3_UniqueNames == [][C3_SmallestFreeStep]_vars /\ []C3_Sequence

\* three files of the same name, date and place lie in one folder, the first
\* from before the first run, the second and third moved in two runs
C3_Witness ==
    /\ Exists(dest, FolderInconnu, NameA)
    /\ Exists(dest, FolderInconnu, Numbered(NameA, 1))
    /\ Exists(dest, FolderInconnu, Numbered(NameA, 2))
    /\ dest[<<FolderInconnu, NameA>>] = OldFile
    /\ dest[<<FolderInconnu, Numbered(NameA, 1)>>].name = NameA
    /\ dest[<<FolderInconnu, Numbered(NameA, 1)>>].born = 1
    /\ dest[<<FolderInconnu, Numbered(NameA, 2)>>].name = NameA
    /\ dest[<<FolderInconnu, Numbered(NameA, 2)>>].born = 2

\* the label the specification names
Unknown == <<"U", "n", "k", "n", "o", "w", "n">>

\* C6 as stated: when reverse() raises, the city is "Unknown", and the file is
\* moved into "{date} - Unknown" and counted as processed.
C6_AsStated ==
    (last.outcome # "none" /\ last.geo = "raise") =>
        /\ last.city = PyStr(Unknown)
        /\ last.outcome = "moved"
        /\ last.folder = DateStr(last.photo_date) \o <<" ", "-", " ">> \o Unknown
        /\ processed_count = last.before[1] + 1
        /\ error_count = last.before[2]

\* C6 as amended: when reverse() raises, the city is the fallback label
\* "Inconnu" and the call goes on to the move; the file is moved into
\* "{date} - Inconnu" and counted as processed, unless the creation of the
\* folder or the move itself fails, the only errors then counted.
C6_GeocodingFailure ==
    (last.outcome # "none" /\ last.geo = "raise") =>
        /\ last.city = PyStr(Inconnu)
        /\ last.stage \in {"done", "mkdir", "move"}
        /\ last.outcome = "moved" =>
              /\ last.folder
                    = DateStr(last.photo_date) \o <<" ", "-", " ">> \o Inconnu
              /\ dest[<<last.folder, last.name>>] = last.file
              /\ processed_count = last.before[1] + 1
              /\ error_count = last.before[2]
        /\ last.outcome = "error" =>
              /\ last.stage \in {"mkdir", "move"}
              /\ error_count = last.before[2] + 1

\* reverse() raised and the file was moved into "2022-01-05 - Inconnu"
C6_Witness ==
    /\ last.outcome = "moved"
    /\ last.geo = "raise"
    /\ last.folder = FolderInconnu
    /\ processed_count = 1

\* C7: a request goes out only for a file with decoded coordinates, at most
\* once per file, with no other request in flight, after a sleep of at least
\* one second and at least one second after the request before it; a file
\* without coordinates gets the fallback label with no request and no sleep.
C7_RequestStep ==
    /\ requests' = requests + 1 =>
          /\ cur.coordinates # PyNone
          /\ requests = 0
          /\ inflight = 0
          /\ cur.slept >= 1
          /\ elapsed = NoRequest \/ elapsed >= 1
    /\ (pc = "loop" /\ pc' = "move") =>
          /\ cur'.coordinates = PyNone
          /\ cur'.city = PyStr(Inconnu)
          /\ cur'.slept = 0
    /\ (pc = "move" /\ cur.coordinates = PyNone) =>
          requests = 0 /\ cur.slept = 0 /\ cur.geo = "none"

C7_State == inflight \in {0, 1} /\ requests \in {0, 1}

\* C7: every request follows a sleep of at least one second, is the only one
\* of its file and the only one in flight; no coordinates, no request.
C7_RateLimit == [][C7_RequestStep]_vars /\ []C7_State

\* the second request of a run is about to go out, the first one answered
C7_Witness ==
    /\ pc = "request"
    /\ idx = 2
    /\ elapsed # NoRequest
    /\ last.outcome # "none" /\ last.geo # "none"

\* C10: process_photo is called once for every file of the listing, in the
\* order of the listing, whatever the outcome of the files before; when the
\* run is over processed_count + error_count is the length of the listing.
C10_EveryFile ==
    /\ Len(calls) <= Len(photo_files)
    /\ calls = SubSeq(photo_files, 1, Len(calls))
    /\ pc = "loop" => Len(calls) = idx - 1
    /\ pc \in {"sleep", "request", "response", "move"} => Len(calls) = idx
    /\ pc = "done" =>
          /\ calls = photo_files
          /\ processed_count + error_count = Len(photo_files)

\* the first file of a run failed and the second was still moved
C10_Witness ==
    /\ pc = "done"
    /\ Len(photo_files) = 2
    /\ error_count = 1
    /\ processed_count = 1
    /\ last.outcome = "moved"
    /\ photo_files[1] \in source

\* the five sources of the chain, in order: the three tags, the file name,
\* the modification time (or the error of reading it)
Chain(a) ==
    << IF "DateTimeOriginal" \in DOMAIN a.exif_data
       THEN ParseExifDate(a.exif_data["DateTimeOriginal"]) ELSE PyNone,
       IF "DateTime" \in DOMAIN a.exif_data
       THEN ParseExifDate(a.exif_data["DateTime"]) ELSE PyNone,
       IF "DateTimeDigitized" \in DOMAIN a.exif_data
       THEN ParseExifDate(a.exif_data["DateTimeDigitized"]) ELSE PyNone,
       get_date_from_filename(a.name),
       IF a.stat = StatError THEN StatError ELSE FromTimestamp(a.stat.st_mtime) >>

\* the calendar date of a stat answer of the model
MtimeDate(stat) ==
    IF stat.st_mtime = Mtime THEN <<2022, 1, 5, 9, 3, 20>>
    ELSE <<2024, 2, 29, 0, 0, 0>>

\* C4: get_photo_date returns the first success of the chain DateTimeOriginal,
\* DateTime, DateTimeDigitized, file name, modification time: a parseable
\* DateTimeOriginal wins whatever the rest ("2022:01:05 10:20:30" gives
\* 5 January 2022), a tag that does not parse is passed over, and with no
\* tag that parses and no date in the name the result is the date of st_mtime.
C4_DateChain ==
    ret # Pending =>
        /\ \E i \in 1..5 :
              /\ Chain(arg)[i] # PyNone
              /\ \A h \in 1..(i - 1) : Chain(arg)[h] = PyNone
              /\ ret = Chain(arg)[i]
        /\ ("DateTimeOriginal" \in DOMAIN arg.exif_data
              /\ arg.exif_data["DateTimeOriginal"] = ExifDate) =>
                 (ret.t = "datetime" /\ SubSeq(ret.v, 1, 3) = <<2022, 1, 5>>)
        /\ ((\A i \in 1..3 : Chain(arg)[i] = PyNone)
              /\ get_date_from_filename(arg.name) = PyNone
              /\ arg.stat # StatError) =>
                 (ret.t = "datetime" /\ ret.v = MtimeDate(arg.stat))

\* DateTimeOriginal does not parse, DateTime does and is the result, though
\* the name holds another date
C4_Witness ==
    /\ ret # Pending
    /\ DOMAIN arg.exif_data = {"DateTimeOriginal", "DateTime", "DateTimeDigitized"}
    /\ arg.exif_data["DateTimeOriginal"] = <<2022, 2, 30, 10, 20, 30>>
    /\ arg.exif_data["DateTime"] = <<2022, 1, 6, 10, 20, 30>>
    /\ arg.exif_data["DateTimeDigitized"] = <<2022, 1, 7, 10, 20, 30>>
    /\ get_date_from_filename(arg.name) # PyNone
    /\ ret.v = <<2022, 1, 6, 10, 20, 30>>

June15 == [t |-> "datetime", v |-> <<2023, 6, 15, 0, 0, 0>>]

NoDateTag(exif_data) == \A i \in 1..3 : DateTags[i] \notin DOMAIN exif_data

\* C5 as stated: a name that holds 20230615, 2023-06-15 or 2023_06_15 at any
\* place, whatever is around it, resolves to 15 June 2023 when no date tag is
\* present.
C5_AsStated ==
    (ret # Pending /\ arg.core # <<>> /\ NoDateTag(arg.exif_data)) => ret = June15

\* the date string of the name is the leftmost match of the 4/2/2 pattern
CoreIsFirstMatch(a) ==
    \A h \in 1..Len(a.pre) : MatchYMDAt(a.name, h) = <<>>

\* C5 as amended: a name in which 20230615, 2023-06-15 or 2023_06_15 is the
\* first (leftmost) match of the pattern of four, two and two digits with
\* optional "-" or "_" between them resolves to 15 June 2023 when no date tag
\* is present.
C5_FilenameDate ==
    (ret # Pending /\ arg.core # <<>> /\ NoDateTag(arg.exif_data)
        /\ CoreIsFirstMatch(arg)) => ret = June15

\* a date string with a digit and other characters before and after it
C5_Witness ==
    /\ ret = June15
    /\ arg.core = <<"2", "0", "2", "3", "-", "0", "6", "-", "1", "5">>
    /\ arg.pre = <<"1", "x">>
    /\ arg.name = arg.pre \o arg.core \o <<"_", "1">> \o Jpg
    /\ NoDateTag(arg.exif_data)

\* the input holds both triples, each of three numbers
BothTriples(a) ==
    /\ "GPSInfo" \in DOMAIN a
    /\ {2, 4} \subseteq DOMAIN a["GPSInfo"]
    /\ Len(a["GPSInfo"][2]) = 3
    /\ Len(a["GPSInfo"][4]) = 3

RefIs(a, k, ref) == k \in DOMAIN a["GPSInfo"] /\ a["GPSInfo"][k] = ref

\* d + m/60 + s/3600 in arc-seconds
Magnitude(v) == 3600 * v[1] + 60 * v[2] + v[3]

\* C8 as stated: the latitude is strictly negative when its reference is "S",
\* the longitude strictly negative when its reference is "W", all-zero triples
\* included.
C8_AsStated ==
    (ret # Pending /\ BothTriples(arg)) =>
        /\ ret.t = "tuple"
        /\ RefIs(arg, 1, "S") => ret.lat < 0
        /\ RefIs(arg, 3, "W") => ret.lon < 0
        /\ ~RefIs(arg, 1, "S") => ret.lat >= 0
        /\ ~RefIs(arg, 3, "W") => ret.lon >= 0

\* C8 as amended: the result is degrees + minutes/60 + seconds/3600, negated
\* for the latitude when its reference is "S" and for the longitude when its
\* reference is "W": negative then, or zero for the all-zero triple; and
\* not negative with another reference or none.
C8_Hemisphere ==
    (ret # Pending /\ BothTriples(arg)) =>
        /\ ret.t = "tuple"
        /\ RefIs(arg, 1, "S") =>
              /\ ret.lat = -Magnitude(arg["GPSInfo"][2])
              /\ ret.lat <= 0
              /\ ret.lat = 0 <=> arg["GPSInfo"][2] = <<0, 0, 0>>
        /\ RefIs(arg, 3, "W") =>
              /\ ret.lon = -Magnitude(arg["GPSInfo"][4])
              /\ ret.lon <= 0
              /\ ret.lon = 0 <=> arg["GPSInfo"][4] = <<0, 0, 0>>
        /\ ~RefIs(arg, 1, "S") =>
              ret.lat = Magnitude(arg["GPSInfo"][2]) /\ ret.lat >= 0
        /\ ~RefIs(arg, 3, "W") =>
              ret.lon = Magnitude(arg["GPSInfo"][4]) /\ ret.lon >= 0

\* a southern latitude that is negative and a western longitude of all zeros
C8_Witness ==
    /\ ret # Pending
    /\ BothTriples(arg)
    /\ RefIs(arg, 1, "S") /\ RefIs(arg, 3, "W")
    /\ ret.lat = -3661
    /\ arg["GPSInfo"][4] = <<0, 0, 0>> /\ ret.lon = 0

RECURSIVE FirstNonEmpty(_, _)
\* the first of the address fields from number i on with a non-empty value,
\* the fallback label when there is none
FirstNonEmpty(address, i) ==
    IF i > Len(AddressFields) THEN PyStr(Inconnu)
    ELSE IF AddressFields[i] \in DOMAIN address /\ Truthy(address[AddressFields[i]])
         THEN address[AddressFields[i]]
         ELSE FirstNonEmpty(address, i + 1)

\* C9: the place name is the value of the first of village, town, city,
\* municipality, county that is present and not empty, and the fallback label
\* when there is none; it is never empty or null.
C9_FirstField ==
    (ret # Pending /\ arg.t = "Location" /\ "address" \in DOMAIN arg.raw
        /\ DOMAIN arg.raw["address"] # {}) =>
        /\ ret = FirstNonEmpty(arg.raw["address"], 1)
        /\ Truthy(ret)

=============================================================================
